---- MODULE Spec2Model ----
(***************************************************************************)
(* A model of emit_web (src/src/lib.rs): the serde serializer `ser` that   *)
(* turns structured values into JavaScript values, its array and object    *)
(* builders, and the console emitter built on top of it.                   *)
(*                                                                         *)
(* 128-bit integers are vectors of eight 16-bit limbs, least significant   *)
(* limb first, so that every operation of the source (widening casts,      *)
(* abs, shifts, comparisons, to_string, `as f64`) is computed at its own   *)
(* width.  JavaScript strings are sequences of one-character strings.      *)
(***************************************************************************)
EXTENDS Integers, Sequences, FiniteSets, TLC

VARIABLES
    int_in,           \* SpecInt: the integer handed to serialize_i8 .. serialize_u128
    int_out,          \* SpecInt: what the call produced
    overflow_checks,  \* SpecInt: whether the build traps on integer overflow
    obj,              \* SpecMap: the JsObjectSerializer a caller is driving
    obj_prev,         \* SpecMap: the builder as it was before the last call
    obj_call,         \* SpecMap: the last call made on the builder
    obj_ret,          \* SpecMap: what the last call returned
    obj_calls,        \* SpecMap: the number of calls made so far
    ser_in,           \* SpecSer: the structured value handed to ser::jsvalue
    ser_out,          \* SpecSer: what the call produced
    evt,              \* SpecEmit: the event of the latest call to emit
    emit_calls,       \* SpecEmit: the number of calls to emit so far
    console_writes,   \* SpecEmit: the number of writes the console received
    console_last      \* SpecEmit: the latest write the console received

intVars == <<int_in, int_out, overflow_checks>>
objVars == <<obj, obj_prev, obj_call, obj_ret, obj_calls>>
serVars == <<ser_in, ser_out>>
emitVars == <<evt, emit_calls, console_writes, console_last>>
vars == <<int_in, int_out, overflow_checks, obj, obj_prev, obj_call, obj_ret, obj_calls,
          ser_in, ser_out, evt, emit_calls, console_writes, console_last>>

(***************************************************************************)
(* Let(e, F) is F(e) with e evaluated once, before F uses it: operators    *)
(* that use an argument several times bind it first.                       *)
(***************************************************************************)
Let(e, F(_)) == CHOOSE r \in {F(x) : x \in {e}} : TRUE
Let2(e1, e2, F(_, _)) == CHOOSE r \in {F(x, y) : x \in {e1}, y \in {e2}} : TRUE
Let3(e1, e2, e3, F(_, _, _)) ==
    CHOOSE r \in {F(x, y, z) : x \in {e1}, y \in {e2}, z \in {e3}} : TRUE

(***************************************************************************)
(* Results of calls                                                        *)
(***************************************************************************)
Ok(v) == [tag |-> "Ok", val |-> v]
Err(e) == [tag |-> "Err", val |-> e]
Panicked == [tag |-> "Panic", val |-> "attempt to negate with overflow"]
NoResult == [tag |-> "None", val |-> "none"]
IsOk(r) == r.tag = "Ok"
IsErr(r) == r.tag = "Err"
Unit == "()"

\* Option<T>
None == [some |-> FALSE]
Some(x) == [some |-> TRUE, val |-> x]

(***************************************************************************)
(* 128-bit arithmetic on limbs                                             *)
(***************************************************************************)
Limbs == 1..8
\* a limb vector is built as a tuple, limb by limb
MkLimbs(f) == <<f[1], f[2], f[3], f[4], f[5], f[6], f[7], f[8]>>
Zero == <<0, 0, 0, 0, 0, 0, 0, 0>>
Bit(v, i) == (v[(i \div 16) + 1] \div (2 ^ (i % 16))) % 2

RECURSIVE LimbSum(_, _, _)
LimbSum(f, base, i) ==
    IF i < 0 THEN 0 ELSE f[base + i] * (2 ^ i) + LimbSum(f, base, i - 1)

FromBits(f) == MkLimbs([j \in Limbs |-> LimbSum(f, 16 * (j - 1), 15)])

Pow2(k) == FromBits([i \in 0..127 |-> IF i = k THEN 1 ELSE 0])
Not(v) == Let(v, LAMBDA x : MkLimbs([j \in Limbs |-> 65535 - x[j]]))

\* wrapping +1 and -1: the carry runs through the low limbs that are full
Inc(v) ==
    Let(v, LAMBDA x :
        MkLimbs([j \in Limbs |->
            IF \A l \in 1..(j - 1) : x[l] = 65535 THEN (x[j] + 1) % 65536 ELSE x[j]]))
Dec(v) ==
    Let(v, LAMBDA x :
        MkLimbs([j \in Limbs |->
            IF \A l \in 1..(j - 1) : x[l] = 0 THEN (x[j] + 65535) % 65536 ELSE x[j]]))

WrappingNeg(v) == Inc(Not(v))
IsNegative(v) == v[8] >= 32768
UGt(a, b) ==
    Let2(a, b, LAMBDA x, y :
        \E j \in Limbs : x[j] > y[j] /\ \A k \in (j + 1)..8 : x[k] = y[k])
SGt(a, b) ==
    Let2(a, b, LAMBDA x, y :
        IF IsNegative(x) # IsNegative(y) THEN IsNegative(y) ELSE UGt(x, y))

\* `>>` on u128 (zero fill) and on i128 (sign fill)
Shr_u128(v, k) ==
    Let(v, LAMBDA x :
        FromBits([i \in 0..127 |-> IF i + k <= 127 THEN Bit(x, i + k) ELSE 0]))
Shr_i128(v, k) ==
    Let(v, LAMBDA x :
        FromBits([i \in 0..127 |-> IF i + k <= 127 THEN Bit(x, i + k) ELSE Bit(x, 127)]))

\* the number of significant bits
LimbLen(n) == CHOOSE b \in 1..16 : 2 ^ (b - 1) <= n /\ n < 2 ^ b
BitLen(v) ==
    Let(v, LAMBDA x :
        IF x = Zero THEN 0
        ELSE Let(CHOOSE j \in Limbs : x[j] # 0 /\ \A l \in (j + 1)..8 : x[l] = 0,
                 LAMBDA top : 16 * (top - 1) + LimbLen(x[top])))

i128_MAX == FromBits([i \in 0..127 |-> IF i < 127 THEN 1 ELSE 0])
i128_MIN == Pow2(127)
u128_MAX == Not(Zero)

\* `v as i128` from a signed pattern of `w` bits, `v as u128` from an unsigned one
SignExtend(v, w) ==
    Let(v, LAMBDA x :
        FromBits([i \in 0..127 |-> IF i < w THEN Bit(x, i) ELSE Bit(x, w - 1)]))
ZeroExtend(v, w) ==
    Let(v, LAMBDA x : FromBits([i \in 0..127 |-> IF i < w THEN Bit(x, i) ELSE 0]))

(***************************************************************************)
(* Decimal strings: integer::to_string and BigInt(string)                  *)
(***************************************************************************)
DigitChars == <<"0", "1", "2", "3", "4", "5", "6", "7", "8", "9">>
DigitChar(d) == DigitChars[d + 1]
CharDigit(c) == CHOOSE d \in 0..9 : DigitChars[d + 1] = c

\* Division and multiplication go four decimal digits (10^4) at a time.
RECURSIVE RemAt(_, _)
RemAt(v, j) == IF j > 8 THEN 0 ELSE (RemAt(v, j + 1) * 65536 + v[j]) % 10000
DivChunk(v) ==
    Let(v, LAMBDA x : MkLimbs([j \in Limbs |-> (RemAt(x, j + 1) * 65536 + x[j]) \div 10000]))
ModChunk(v) == Let(v, LAMBDA x : RemAt(x, 1))

Pad4(r) ==
    Let(r, LAMBDA n :
        <<DigitChar(n \div 1000), DigitChar((n \div 100) % 10),
          DigitChar((n \div 10) % 10), DigitChar(n % 10)>>)
\* the leading chunk carries no leading zeros
Lead4(r) ==
    Let(r, LAMBDA n :
        IF n >= 1000 THEN Pad4(n)
        ELSE IF n >= 100 THEN SubSeq(Pad4(n), 2, 4)
        ELSE IF n >= 10 THEN SubSeq(Pad4(n), 3, 4)
        ELSE SubSeq(Pad4(n), 4, 4))

RECURSIVE ToDigitsRec(_)
ToDigitsRec(v) ==
    Let2(v, DivChunk(v), LAMBDA x, q :
        IF q = Zero THEN Lead4(ModChunk(x)) ELSE ToDigitsRec(q) \o Pad4(ModChunk(x)))
ToDigits(v) == ToDigitsRec(v)

u128_to_string(v) == ToDigits(v)
i128_to_string(v) ==
    Let(v, LAMBDA x :
        IF IsNegative(x) THEN <<"-">> \o ToDigits(WrappingNeg(x)) ELSE ToDigits(x))

RECURSIVE CarryAt(_, _, _)
CarryAt(v, d, j) == IF j = 1 THEN d ELSE (v[j - 1] * 10000 + CarryAt(v, d, j - 1)) \div 65536
MulAddChunk(v, d) ==
    Let2(v, d, LAMBDA x, y :
        MkLimbs([j \in Limbs |-> (x[j] * 10000 + CarryAt(x, y, j)) % 65536]))

DigitAt(s, i) == IF i >= 1 THEN CharDigit(s[i]) ELSE 0
ChunkEndingAt(s, n) ==
    DigitAt(s, n - 3) * 1000 + DigitAt(s, n - 2) * 100 + DigitAt(s, n - 1) * 10 + DigitAt(s, n)

\* the value of the first n digits of s
RECURSIVE ParseDigits(_, _)
ParseDigits(s, n) ==
    IF n <= 0 THEN Zero ELSE MulAddChunk(ParseDigits(s, n - 4), ChunkEndingAt(s, n))
ParseDecimal(s) == Let(s, LAMBDA x : ParseDigits(x, Len(x)))

(***************************************************************************)
(* JavaScript values                                                       *)
(***************************************************************************)
JsNull == [t |-> "null"]
JsBool(b) == [t |-> "boolean", b |-> b]
JsString(s) == [t |-> "string", s |-> s]
JsNumber(neg, mag, exp) == [t |-> "number", neg |-> neg, mag |-> mag, exp |-> exp]

JsArray(items) == [t |-> "array", items |-> items]
JsObject(entries) == [t |-> "object", entries |-> entries]
JsUint8Array(bytes) == [t |-> "uint8array", bytes |-> bytes]
JsDate(ms) == [t |-> "date", ms |-> ms]
Array_new == JsArray(<<>>)
Object_new == JsObject(<<>>)
Array_push(a, v) == JsArray(Append(a.items, v))

\* JsValue::bigint_from_str: BigInt(s) parses the decimal string
bigint_from_str(s) ==
    Let(s, LAMBDA x :
        IF x # <<>> /\ Head(x) = "-"
        THEN [t |-> "bigint", neg |-> TRUE, mag |-> ParseDecimal(Tail(x))]
        ELSE [t |-> "bigint", neg |-> FALSE, mag |-> ParseDecimal(x)])

\* the number of bits an f64 holds exactly
F64_MANTISSA_DIGITS == 53

\* an integer magnitude rounded to the nearest f64, ties to even: mag * 2^exp
RoundToF64(m) ==
    Let2(m, BitLen(m), LAMBDA x, h :
        IF h <= F64_MANTISSA_DIGITS THEN [mag |-> x, exp |-> 0]
        ELSE Let2(h - F64_MANTISSA_DIGITS, Shr_u128(x, h - F64_MANTISSA_DIGITS), LAMBDA s, keep :
                IF Bit(x, s - 1) = 1 /\ ((\E i \in 0..(s - 2) : Bit(x, i) = 1) \/ Bit(keep, 0) = 1)
                THEN [mag |-> Inc(keep), exp |-> s]
                ELSE [mag |-> keep, exp |-> s]))

\* JsValue::from(v as f64)
i128_as_f64(v) ==
    Let(v, LAMBDA x :
        Let(RoundToF64(IF IsNegative(x) THEN WrappingNeg(x) ELSE x), LAMBDA r :
            JsNumber(IsNegative(x) /\ x # Zero, r.mag, r.exp)))
u128_as_f64(v) == Let(RoundToF64(v), LAMBDA r : JsNumber(FALSE, r.mag, r.exp))

(***************************************************************************)
(* JsSerializer: integers                                                  *)
(***************************************************************************)
\* i128::abs: i128::MIN has no positive counterpart; the result wraps to MIN
\* when the build does not trap on overflow
i128_abs(v) == Let(v, LAMBDA x : IF IsNegative(x) THEN WrappingNeg(x) ELSE x)

\* i128::MAX >> 74 and u128::MAX >> 75
i128_threshold == Shr_i128(i128_MAX, 74)
u128_threshold_shifted_76 == Shr_u128(u128_MAX, 76)
u128_threshold == Shr_u128(u128_MAX, 75)

serialize_i128(v, checks) ==
    Let(v, LAMBDA x :
        IF x = i128_MIN /\ checks THEN Panicked
        ELSE IF SGt(i128_abs(x), i128_threshold)
             THEN Ok(bigint_from_str(i128_to_string(x)))
             ELSE Ok(i128_as_f64(x)))

serialize_u128(v) ==
    Let(v, LAMBDA x :
        IF UGt(x, u128_threshold)
        THEN Ok(bigint_from_str(u128_to_string(x)))
        ELSE Ok(u128_as_f64(x)))

serialize_i8(v, checks) == serialize_i128(SignExtend(v, 8), checks)
serialize_i16(v, checks) == serialize_i128(SignExtend(v, 16), checks)
serialize_i32(v, checks) == serialize_i128(SignExtend(v, 32), checks)
serialize_i64(v, checks) == serialize_i128(SignExtend(v, 64), checks)
serialize_u8(v) == serialize_u128(ZeroExtend(v, 8))
serialize_u16(v) == serialize_u128(ZeroExtend(v, 16))
serialize_u32(v) == serialize_u128(ZeroExtend(v, 32))
serialize_u64(v) == serialize_u128(ZeroExtend(v, 64))

(***************************************************************************)
(* JavaScript objects: property keys and Reflect.set                       *)
(***************************************************************************)
\* Number::toString of an integer-valued number below 2^53
NumberToString(n) == Let(n, LAMBDA x : (IF x.neg THEN <<"-">> ELSE <<>>) \o ToDigits(x.mag))
BigIntToString(n) == Let(n, LAMBDA x : (IF x.neg THEN <<"-">> ELSE <<>>) \o ToDigits(x.mag))

\* ToPropertyKey of the scalars a key can serialize to
ToPropertyKey(key) ==
    Let(key, LAMBDA k :
        CASE k.t = "string" -> k.s
          [] k.t = "number" /\ k.exp = 0 -> NumberToString(k)
          [] k.t = "bigint" -> BigIntToString(k)
          [] k.t = "boolean" -> IF k.b THEN <<"t", "r", "u", "e">> ELSE <<"f", "a", "l", "s", "e">>
          [] k.t = "null" -> <<"n", "u", "l", "l">>)

IsDigitChar(c) == \E d \in 0..9 : DigitChars[d + 1] = c
\* an array index: a canonical decimal string below 2^32 - 1
IsArrayIndex(key) ==
    Let(key, LAMBDA k :
        /\ Len(k) >= 1
        /\ Len(k) <= 10
        /\ \A i \in 1..Len(k) : IsDigitChar(k[i])
        /\ (Len(k) = 1 \/ k[1] # "0")
        /\ UGt(Dec(Pow2(32)), ParseDecimal(k)))
IndexLess(a, b) == UGt(ParseDecimal(b), ParseDecimal(a))

InsertAt(q, i, e) == SubSeq(q, 1, i - 1) \o <<e>> \o SubSeq(q, i, Len(q))

\* where a new key goes among the entries: an array index before the first
\* entry that is no array index or a greater one, any other key at the end
InsertionPoint(es, pk) ==
    IF ~IsArrayIndex(pk) THEN Len(es) + 1
    ELSE Let({i \in 1..Len(es) : ~IsArrayIndex(es[i].k) \/ IndexLess(pk, es[i].k)},
             LAMBDA after :
                IF after = {} THEN Len(es) + 1 ELSE CHOOSE i \in after : \A j \in after : i <= j)

\* Reflect.set on an ordinary object.  `entries` lists the own properties in
\* the order the object enumerates them: array indices ascending, then the
\* other keys in the order they were created.
Reflect_set(target, key, value) ==
    Let3(target.entries, ToPropertyKey(key), value, LAMBDA es, pk, val :
        IF \E i \in 1..Len(es) : es[i].k = pk
        THEN JsObject([i \in 1..Len(es) |-> IF es[i].k = pk THEN [k |-> pk, v |-> val] ELSE es[i]])
        ELSE JsObject(InsertAt(es, InsertionPoint(es, pk), [k |-> pk, v |-> val])))

ObjectKeys(o) == [i \in 1..Len(o.entries) |-> o.entries[i].k]

(***************************************************************************)
(* ser::JsError                                                            *)
(***************************************************************************)
JsError == [error |-> "JsError"]
\* Error::custom and From<JsValue> both drop what they are given
JsError_custom(msg) == JsError
JsError_from(jsv) == JsError
JsError_to_string(e) ==
    <<"f", "a", "i", "l", "e", "d", " ", "t", "o", " ", "s", "e", "r", "i", "a", "l", "i", "z", "e", " ", "a", " ", "v", "a", "l", "u", "e", " ", "t", "o", " ", "J", "a", "v", "a", "S", "c", "r", "i", "p", "t">>

\* `?` on a Result whose error is a JsValue or a JsError
Question(r) == Let(r, LAMBDA x : IF x.tag = "Panic" THEN x ELSE Err(JsError_from(x.val)))

(***************************************************************************)
(* Structured values: what a caller hands to the serializer                *)
(***************************************************************************)
RBool(b) == [shape |-> "bool", b |-> b]
RInt(signed, width, bits) == [shape |-> "int", signed |-> signed, width |-> width, bits |-> bits]
RI32(n) == RInt(TRUE, 32, <<n, 0, 0, 0, 0, 0, 0, 0>>)
RChar(c) == [shape |-> "char", c |-> c]
RStr(s) == [shape |-> "str", s |-> s]
RBytes(bytes) == [shape |-> "bytes", bytes |-> bytes]
RUnit == [shape |-> "unit"]
RNone == [shape |-> "none"]
RSome(x) == [shape |-> "some", value |-> x]
RUnitStruct(name) == [shape |-> "unit_struct", name |-> name]
RUnitVariant(variant) == [shape |-> "unit_variant", variant |-> variant]
RNewtypeStruct(x) == [shape |-> "newtype_struct", value |-> x]
RNewtypeVariant(variant, x) == [shape |-> "newtype_variant", variant |-> variant, value |-> x]
RSeq(items) == [shape |-> "seq", items |-> items]
RTuple(items) == [shape |-> "tuple", items |-> items]
RTupleStruct(items) == [shape |-> "tuple_struct", items |-> items]
RTupleVariant(variant, items) == [shape |-> "tuple_variant", variant |-> variant, items |-> items]
\* entries and fields are sequences of [k, v]
RMap(entries) == [shape |-> "map", entries |-> entries]
RStruct(fields) == [shape |-> "struct", fields |-> fields]
RStructVariant(variant, fields) == [shape |-> "struct_variant", variant |-> variant, fields |-> fields]
\* PropsObject(props), the wrapper encode_props serializes
PropsObject(props) == [shape |-> "props_object", props |-> props]
\* a value whose Serialize impl returns Err(S::Error::custom(msg))
RFail(msg) == [shape |-> "fail", msg |-> msg]

(***************************************************************************)
(* The builders: JsArraySerializer and JsObjectSerializer                  *)
(***************************************************************************)
JsArraySerializer(variant) == [variant |-> variant, result |-> Array_new]
JsObjectSerializer(variant) == [variant |-> variant, key |-> None, result |-> Object_new]

\* a variant that hands back its payload unwrapped
jsvariant_unwrapped(variant, value) == Ok(value)

jsvariant(variant, value) == Ok(Reflect_set(Object_new, JsString(variant), value))

\* a push that skips a child that failed to serialize
JsArraySerializer_push_skip_failed(self, r) ==
    Let2(self, r, LAMBDA b, x :
        IF IsOk(x)
        THEN [self |-> [b EXCEPT !.result = Array_push(@, x.val)], ret |-> Ok(Unit)]
        ELSE [self |-> b, ret |-> Ok(Unit)])

\* self.result.push(&jsvalue(value)?); r is what jsvalue(value) returned
JsArraySerializer_push(self, r) ==
    Let2(self, r, LAMBDA b, x :
        IF IsOk(x)
        THEN [self |-> [b EXCEPT !.result = Array_push(@, x.val)], ret |-> Ok(Unit)]
        ELSE [self |-> b, ret |-> Question(x)])

SerializeSeq_serialize_element(self, r) == JsArraySerializer_push(self, r)
SerializeSeq_end(self) == Ok(self.result)
SerializeTuple_serialize_element(self, r) == JsArraySerializer_push(self, r)
SerializeTuple_end(self) == Ok(self.result)
SerializeTupleStruct_serialize_field(self, r) == JsArraySerializer_push(self, r)
SerializeTupleStruct_end(self) == Ok(self.result)
SerializeTupleVariant_serialize_field(self, r) == JsArraySerializer_push(self, r)
SerializeTupleVariant_end(self) ==
    Let(self, LAMBDA b :
        IF b.variant.some THEN jsvariant(b.variant.val, b.result)
        ELSE Err(JsError_custom("missing variant")))

\* a serialize_key that keeps the key already pending
SerializeMap_serialize_key_first_wins(self, r) ==
    Let2(self, r, LAMBDA b, x :
        IF IsOk(x)
        THEN [self |-> [b EXCEPT !.key = IF @.some THEN @ ELSE Some(x.val)], ret |-> Ok(Unit)]
        ELSE [self |-> b, ret |-> Question(x)])

\* self.key = Some(jsvalue(key)?)
SerializeMap_serialize_key(self, r) ==
    Let2(self, r, LAMBDA b, x :
        IF IsOk(x)
        THEN [self |-> [b EXCEPT !.key = Some(x.val)], ret |-> Ok(Unit)]
        ELSE [self |-> b, ret |-> Question(x)])

\* a serialize_value that keeps the key pending when the value fails
SerializeMap_serialize_value_keeps_key(self, r) ==
    Let2(self, r, LAMBDA b, x :
        IF ~b.key.some
        THEN [self |-> b, ret |-> Err(JsError_custom("missing key for a value"))]
        ELSE IF ~IsOk(x)
             THEN [self |-> b, ret |-> Question(x)]
             ELSE [self |-> [b EXCEPT !.key = None,
                                      !.result = Reflect_set(@, b.key.val, x.val)],
                   ret |-> Ok(Unit)])

\* a serialize_value that binds under a default key when none is pending
SerializeMap_serialize_value_default_key(self, r) ==
    Let2(self, r, LAMBDA b, x :
        IF ~IsOk(x)
        THEN [self |-> [b EXCEPT !.key = None], ret |-> Question(x)]
        ELSE [self |-> [b EXCEPT !.key = None,
                                 !.result = Reflect_set(@, IF b.key.some THEN b.key.val ELSE JsNull,
                                                        x.val)],
              ret |-> Ok(Unit)])

\* the key is taken first, then the value is serialized, then it is bound
SerializeMap_serialize_value(self, r) ==
    Let2(self, r, LAMBDA b, x :
        IF ~b.key.some
        THEN [self |-> [b EXCEPT !.key = None], ret |-> Err(JsError_custom("missing key for a value"))]
        ELSE IF ~IsOk(x)
             THEN [self |-> [b EXCEPT !.key = None], ret |-> Question(x)]
             ELSE [self |-> [b EXCEPT !.key = None,
                                      !.result = Reflect_set(@, b.key.val, x.val)],
                   ret |-> Ok(Unit)])

SerializeMap_end(self) == Ok(self.result)

JsObjectSerializer_set_field(self, key, r) ==
    Let2(self, r, LAMBDA b, x :
        IF IsOk(x)
        THEN [self |-> [b EXCEPT !.result = Reflect_set(@, JsString(key), x.val)], ret |-> Ok(Unit)]
        ELSE [self |-> b, ret |-> Question(x)])

SerializeStruct_serialize_field(self, key, r) == JsObjectSerializer_set_field(self, key, r)
SerializeStruct_end(self) == Ok(self.result)
SerializeStructVariant_serialize_field(self, key, r) == JsObjectSerializer_set_field(self, key, r)
SerializeStructVariant_end(self) ==
    Let(self, LAMBDA b :
        IF b.variant.some THEN jsvariant(b.variant.val, b.result)
        ELSE Err(JsError_custom("missing variant")))

(***************************************************************************)
(* JsSerializer and ser::jsvalue                                           *)
(***************************************************************************)
serialize_bool(v) == Ok(JsBool(v))
serialize_char(v) == Ok(JsString(<<v>>))
serialize_str(v) == Ok(JsString(v))
serialize_bytes(v) == Ok(JsUint8Array(v))
serialize_none == Ok(JsNull)
serialize_unit == Ok(JsNull)
serialize_unit_struct(name) == Ok(JsString(name))
serialize_unit_variant(variant) == Ok(JsString(variant))
\* jsvariant(variant, jsvalue(value)?); r is what jsvalue(value) returned
serialize_newtype_variant(variant, r) ==
    Let(r, LAMBDA x : IF IsOk(x) THEN jsvariant(variant, x.val) ELSE Question(x))
serialize_seq == Ok(JsArraySerializer(None))
serialize_tuple == Ok(JsArraySerializer(None))
serialize_tuple_struct == Ok(JsArraySerializer(None))
serialize_tuple_variant(variant) == Ok(JsArraySerializer(Some(variant)))
serialize_map == Ok(JsObjectSerializer(None))
serialize_struct == Ok(JsObjectSerializer(None))
serialize_struct_variant(variant) == Ok(JsObjectSerializer(Some(variant)))

serialize_int(value, checks) ==
  Let(value, LAMBDA v :
    CASE v.signed /\ v.width = 8 -> serialize_i8(v.bits, checks)
      [] v.signed /\ v.width = 16 -> serialize_i16(v.bits, checks)
      [] v.signed /\ v.width = 32 -> serialize_i32(v.bits, checks)
      [] v.signed /\ v.width = 64 -> serialize_i64(v.bits, checks)
      [] v.signed /\ v.width = 128 -> serialize_i128(v.bits, checks)
      [] ~v.signed /\ v.width = 8 -> serialize_u8(v.bits)
      [] ~v.signed /\ v.width = 16 -> serialize_u16(v.bits)
      [] ~v.signed /\ v.width = 32 -> serialize_u32(v.bits)
      [] ~v.signed /\ v.width = 64 -> serialize_u64(v.bits)
      [] ~v.signed /\ v.width = 128 -> serialize_u128(v.bits))

ArrayElement(shape, self, r) ==
    CASE shape = "seq" -> SerializeSeq_serialize_element(self, r)
      [] shape = "tuple" -> SerializeTuple_serialize_element(self, r)
      [] shape = "tuple_struct" -> SerializeTupleStruct_serialize_field(self, r)
      [] shape = "tuple_variant" -> SerializeTupleVariant_serialize_field(self, r)
ArrayEnd(shape, self) ==
    CASE shape = "seq" -> SerializeSeq_end(self)
      [] shape = "tuple" -> SerializeTuple_end(self)
      [] shape = "tuple_struct" -> SerializeTupleStruct_end(self)
      [] shape = "tuple_variant" -> SerializeTupleVariant_end(self)
FieldSet(shape, self, key, r) ==
    IF shape = "struct" THEN SerializeStruct_serialize_field(self, key, r)
    ELSE SerializeStructVariant_serialize_field(self, key, r)
FieldEnd(shape, self) ==
    IF shape = "struct" THEN SerializeStruct_end(self) ELSE SerializeStructVariant_end(self)

\* serialize(v) is v.serialize(JsSerializer).  The Serialize impls of
\* sequences, tuples, maps, structs and enum variants are serde's: they open
\* the builder, hand it each child in order, return at the first error, and
\* end the builder.  SerializeMap::serialize_entry is serde's default: the
\* key, then the value.
RECURSIVE serialize(_), jsvalue(_), DriveArray(_, _, _, _), DriveMap(_, _, _), DriveFields(_, _, _, _)
RECURSIVE PropsObject_for_each(_, _, _)

DriveArray(shape, self, items, i) ==
    IF i > Len(items) THEN ArrayEnd(shape, self)
    ELSE Let(ArrayElement(shape, self, jsvalue(items[i])), LAMBDA st :
            IF IsOk(st.ret) THEN DriveArray(shape, st.self, items, i + 1) ELSE st.ret)

DriveMap(self, entries, i) ==
    IF i > Len(entries) THEN SerializeMap_end(self)
    ELSE Let(SerializeMap_serialize_key(self, jsvalue(entries[i].k)), LAMBDA sk :
            IF ~IsOk(sk.ret) THEN sk.ret
            ELSE Let(SerializeMap_serialize_value(sk.self, jsvalue(entries[i].v)), LAMBDA sv :
                    IF IsOk(sv.ret) THEN DriveMap(sv.self, entries, i + 1) ELSE sv.ret))

DriveFields(shape, self, fields, i) ==
    IF i > Len(fields) THEN FieldEnd(shape, self)
    ELSE Let(FieldSet(shape, self, fields[i].k, jsvalue(fields[i].v)), LAMBDA st :
            IF IsOk(st.ret) THEN DriveFields(shape, st.self, fields, i + 1) ELSE st.ret)

\* self.0.for_each(..) of PropsObject::serialize, then `r?; map.end()`: each
\* property's key then its value, breaking at the first error
PropsObject_for_each(map, props, i) ==
    IF i > Len(props) THEN SerializeMap_end(map)
    ELSE Let(SerializeMap_serialize_key(map, jsvalue(RStr(props[i].k))), LAMBDA sk :
            IF ~IsOk(sk.ret) THEN sk.ret
            ELSE Let(SerializeMap_serialize_value(sk.self, jsvalue(props[i].v)), LAMBDA sv :
                    IF IsOk(sv.ret) THEN PropsObject_for_each(sv.self, props, i + 1) ELSE sv.ret))

PropsObject_serialize(props) == PropsObject_for_each(serialize_map.val, props, 1)

serialize(value) ==
    Let(value, LAMBDA v :
        CASE v.shape = "bool" -> serialize_bool(v.b)
          [] v.shape = "int" -> serialize_int(v, overflow_checks)
          [] v.shape = "char" -> serialize_char(v.c)
          [] v.shape = "str" -> serialize_str(v.s)
          [] v.shape = "bytes" -> serialize_bytes(v.bytes)
          [] v.shape = "unit" -> serialize_unit
          [] v.shape = "none" -> serialize_none
          [] v.shape = "some" -> serialize(v.value)
          [] v.shape = "unit_struct" -> serialize_unit_struct(v.name)
          [] v.shape = "unit_variant" -> serialize_unit_variant(v.variant)
          [] v.shape = "newtype_struct" -> serialize(v.value)
          [] v.shape = "newtype_variant" -> serialize_newtype_variant(v.variant, jsvalue(v.value))
          [] v.shape = "seq" -> DriveArray("seq", serialize_seq.val, v.items, 1)
          [] v.shape = "tuple" -> DriveArray("tuple", serialize_tuple.val, v.items, 1)
          [] v.shape = "tuple_struct" ->
                DriveArray("tuple_struct", serialize_tuple_struct.val, v.items, 1)
          [] v.shape = "tuple_variant" ->
                DriveArray("tuple_variant", serialize_tuple_variant(v.variant).val, v.items, 1)
          [] v.shape = "map" -> DriveMap(serialize_map.val, v.entries, 1)
          [] v.shape = "struct" -> DriveFields("struct", serialize_struct.val, v.fields, 1)
          [] v.shape = "struct_variant" ->
                DriveFields("struct_variant", serialize_struct_variant(v.variant).val, v.fields, 1)
          [] v.shape = "props_object" -> PropsObject_serialize(v.props)
          [] v.shape = "fail" -> Err(JsError_custom(v.msg)))

\* v.serialize(JsSerializer).map_err(|e| JsValue::from(e.to_string()))
jsvalue(v) ==
    Let(serialize(v), LAMBDA r :
        IF r.tag = "Err" THEN Err(JsString(JsError_to_string(r.val))) ELSE r)

(***************************************************************************)
(* SpecInt: one integer of one width is serialized                         *)
(***************************************************************************)
MaxDelta == 1

Widths == {8, 16, 32, 64, 128}
Exps == {7, 8, 15, 16, 31, 32, 52, 53, 54, 63, 64, 127, 128}

RECURSIVE AddSmall(_, _)
AddSmall(v, d) == IF d = 0 THEN v ELSE AddSmall(Inc(v), d - 1)
RECURSIVE SubSmall(_, _)
SubSmall(v, d) == IF d = 0 THEN v ELSE SubSmall(Dec(v), d - 1)

\* magnitudes near zero and near the powers of two: 2^k - d, 2^k + d
Magnitudes ==
    {AddSmall(Zero, d) : d \in 0..MaxDelta}
    \cup {AddSmall(Pow2(k), d) : k \in Exps \ {128}, d \in 0..MaxDelta}
    \cup {SubSmall(Pow2(k), d) : k \in Exps, d \in 1..MaxDelta}

Mask(v, w) == ZeroExtend(v, w)

UnsignedInputs(w) ==
    {[signed |-> FALSE, width |-> w, bits |-> m] : m \in {x \in Magnitudes : BitLen(x) <= w}}
PositiveInputs(w) ==
    {[signed |-> TRUE, width |-> w, bits |-> m] : m \in {x \in Magnitudes : BitLen(x) <= w - 1}}
NegativeInputs(w) ==
    {[signed |-> TRUE, width |-> w, bits |-> Mask(WrappingNeg(m), w)] :
        m \in {x \in Magnitudes : x # Zero /\ ~UGt(x, Pow2(w - 1))}}

IntInputs ==
    UNION {UnsignedInputs(w) \cup PositiveInputs(w) \cup NegativeInputs(w) : w \in Widths}

IdleObj ==
    /\ obj = JsObjectSerializer(None)
    /\ obj_prev = JsObjectSerializer(None)
    /\ obj_call = [op |-> "idle", arg |-> Unit]
    /\ obj_ret = NoResult
    /\ obj_calls = 0

IdleInt ==
    /\ int_in = [signed |-> FALSE, width |-> 8, bits |-> Zero]
    /\ overflow_checks = FALSE
    /\ int_out = NoResult

IdleSer ==
    /\ ser_in = RUnit
    /\ ser_out = NoResult

NoWrite == [method |-> "none"]
IdleEmit ==
    /\ evt = None
    /\ emit_calls = 0
    /\ console_writes = 0
    /\ console_last = NoWrite

InitInt ==
    /\ int_in \in IntInputs
    /\ overflow_checks \in BOOLEAN
    /\ int_out = NoResult
    /\ IdleObj
    /\ IdleSer
    /\ IdleEmit

IntPending(signed, width) ==
    /\ int_out = NoResult
    /\ int_in.signed = signed
    /\ int_in.width = width

Call_serialize_i8 ==
    /\ IntPending(TRUE, 8)
    /\ int_out' = serialize_i8(int_in.bits, overflow_checks)
    /\ UNCHANGED <<int_in, overflow_checks, objVars, serVars, emitVars>>

Call_serialize_i16 ==
    /\ IntPending(TRUE, 16)
    /\ int_out' = serialize_i16(int_in.bits, overflow_checks)
    /\ UNCHANGED <<int_in, overflow_checks, objVars, serVars, emitVars>>

Call_serialize_i32 ==
    /\ IntPending(TRUE, 32)
    /\ int_out' = serialize_i32(int_in.bits, overflow_checks)
    /\ UNCHANGED <<int_in, overflow_checks, objVars, serVars, emitVars>>

Call_serialize_i64 ==
    /\ IntPending(TRUE, 64)
    /\ int_out' = serialize_i64(int_in.bits, overflow_checks)
    /\ UNCHANGED <<int_in, overflow_checks, objVars, serVars, emitVars>>

Call_serialize_i128 ==
    /\ IntPending(TRUE, 128)
    /\ int_out' = serialize_i128(int_in.bits, overflow_checks)
    /\ UNCHANGED <<int_in, overflow_checks, objVars, serVars, emitVars>>

Call_serialize_u8 ==
    /\ IntPending(FALSE, 8)
    /\ int_out' = serialize_u8(int_in.bits)
    /\ UNCHANGED <<int_in, overflow_checks, objVars, serVars, emitVars>>

Call_serialize_u16 ==
    /\ IntPending(FALSE, 16)
    /\ int_out' = serialize_u16(int_in.bits)
    /\ UNCHANGED <<int_in, overflow_checks, objVars, serVars, emitVars>>

Call_serialize_u32 ==
    /\ IntPending(FALSE, 32)
    /\ int_out' = serialize_u32(int_in.bits)
    /\ UNCHANGED <<int_in, overflow_checks, objVars, serVars, emitVars>>

Call_serialize_u64 ==
    /\ IntPending(FALSE, 64)
    /\ int_out' = serialize_u64(int_in.bits)
    /\ UNCHANGED <<int_in, overflow_checks, objVars, serVars, emitVars>>

Call_serialize_u128 ==
    /\ IntPending(FALSE, 128)
    /\ int_out' = serialize_u128(int_in.bits)
    /\ UNCHANGED <<int_in, overflow_checks, objVars, serVars, emitVars>>

NextInt ==
    \/ Call_serialize_i8
    \/ Call_serialize_i16
    \/ Call_serialize_i32
    \/ Call_serialize_i64
    \/ Call_serialize_i128
    \/ Call_serialize_u8
    \/ Call_serialize_u16
    \/ Call_serialize_u32
    \/ Call_serialize_u64
    \/ Call_serialize_u128

SpecInt == InitInt /\ [][NextInt]_vars

\* the integer the input denotes, as sign and magnitude
InputNeg == int_in.signed /\ Bit(int_in.bits, int_in.width - 1) = 1
InputMag ==
    IF InputNeg THEN Mask(WrappingNeg(SignExtend(int_in.bits, int_in.width)), int_in.width)
    ELSE int_in.bits
\* 2^53 - 1
SafeMax == Dec(Pow2(53))
InputIsBig == UGt(InputMag, SafeMax)

(***************************************************************************)
(* SpecMap: a caller drives one JsObjectSerializer through SerializeMap,   *)
(* in any order of calls, until it ends it                                 *)
(***************************************************************************)
MaxCalls == 4

ChildKeys == {RStr(<<"a">>), RStr(<<"b">>), RStr(<<"1">>), RI32(2), RFail("key")}
ChildValues == {RI32(1), RStr(<<"x">>), RFail("value")}

InitMap ==
    /\ obj = serialize_map.val
    /\ obj_prev = serialize_map.val
    /\ obj_call = [op |-> "serialize_map", arg |-> Unit]
    /\ obj_ret = Ok(Unit)
    /\ obj_calls = 0
    /\ IdleInt
    /\ IdleSer
    /\ IdleEmit

MapOpen == obj_call.op # "end" /\ obj_calls < MaxCalls

Map_serialize_key ==
    \E k \in ChildKeys :
        \E st \in {SerializeMap_serialize_key(obj, jsvalue(k))} :
            /\ MapOpen
            /\ obj' = st.self
            /\ obj_ret' = st.ret
            /\ obj_prev' = obj
            /\ obj_call' = [op |-> "serialize_key", arg |-> k]
            /\ obj_calls' = obj_calls + 1
            /\ UNCHANGED <<intVars, serVars, emitVars>>

Map_serialize_value ==
    \E v \in ChildValues :
        \E st \in {SerializeMap_serialize_value(obj, jsvalue(v))} :
            /\ MapOpen
            /\ obj' = st.self
            /\ obj_ret' = st.ret
            /\ obj_prev' = obj
            /\ obj_call' = [op |-> "serialize_value", arg |-> v]
            /\ obj_calls' = obj_calls + 1
            /\ UNCHANGED <<intVars, serVars, emitVars>>

\* end(self) consumes the builder
Map_end ==
    /\ MapOpen
    /\ obj_ret' = SerializeMap_end(obj)
    /\ obj_prev' = obj
    /\ obj_call' = [op |-> "end", arg |-> Unit]
    /\ obj_calls' = obj_calls + 1
    /\ UNCHANGED <<obj, intVars, serVars, emitVars>>

NextMap == Map_serialize_key \/ Map_serialize_value \/ Map_end

SpecMap == InitMap /\ [][NextMap]_vars

(***************************************************************************)
(* SpecSer: ser::jsvalue is called on one structured value                 *)
(***************************************************************************)
MaxLen == 2
MaxDepth == 3

Filler == RI32(1)
Leaves ==
    {RI32(2), RStr(<<"x">>), RUnit, RUnitVariant(<<"A">>), RUnitStruct(<<"U">>), RFail("leaf")}
InnerLeaves == {RStr(<<"x">>), RFail("leaf")}

\* n children, all Filler but the one at p
RECURSIVE ChildrenAt(_, _, _)
ChildrenAt(n, p, c) ==
    IF n = 0 THEN <<>> ELSE Append(ChildrenAt(n - 1, p, c), IF n = p THEN c ELSE Filler)
ChildLists(S) ==
    {ChildrenAt(n, 0, Filler) : n \in 0..MaxLen}
    \cup UNION {{ChildrenAt(n, p, c) : p \in 1..n, c \in S} : n \in 1..MaxLen}

\* the keys of a map in the order its iterator yields them, and the field
\* names of a struct in the order they are declared
KeyOrders ==
    { <<RStr(<<"b">>), RStr(<<"a">>), RStr(<<"d">>), RStr(<<"c">>)>>,
      <<RStr(<<"1", "0">>), RStr(<<"9">>), RStr(<<"a">>), RStr(<<"1">>)>>,
      <<RStr(<<"a">>), RStr(<<"7">>), RStr(<<"b">>), RStr(<<"3">>)>>,
      <<RI32(2), RI32(1), RI32(3), RI32(0)>>,
      <<RStr(<<"a">>), RFail("key"), RStr(<<"b">>), RStr(<<"c">>)>> }
FieldNames == <<<<"b">>, <<"a">>, <<"d">>, <<"c">>>>

RECURSIVE Zip(_, _, _)
Zip(keys, values, n) ==
    IF n = 0 THEN <<>> ELSE Append(Zip(keys, values, n - 1), [k |-> keys[n], v |-> values[n]])
Pairs(keys, values) ==
    Zip(keys, values, IF Len(keys) < Len(values) THEN Len(keys) ELSE Len(values))

Composites(S) ==
    {RSome(c) : c \in S}
    \cup {RNewtypeStruct(c) : c \in S}
    \cup {RNewtypeVariant(<<"V">>, c) : c \in S}
    \cup {RSeq(cs) : cs \in ChildLists(S)}
    \cup {RTuple(cs) : cs \in ChildLists(S)}
    \cup {RTupleStruct(cs) : cs \in ChildLists(S)}
    \cup {RTupleVariant(<<"T">>, cs) : cs \in ChildLists(S)}
    \cup {RMap(Pairs(ks, cs)) : ks \in KeyOrders, cs \in ChildLists(S)}
    \cup {RStruct(Pairs(FieldNames, cs)) : cs \in ChildLists(S)}
    \cup {RStructVariant(<<"S">>, Pairs(FieldNames, cs)) : cs \in ChildLists(S)}

\* one child wrapped k times in the same shape
Wrappers == {"some", "newtype_variant", "seq", "tuple_variant", "map", "struct_variant"}
Wrap(w, c) ==
    CASE w = "some" -> RSome(c)
      [] w = "newtype_variant" -> RNewtypeVariant(<<"V">>, c)
      [] w = "seq" -> RSeq(<<Filler, c>>)
      [] w = "tuple_variant" -> RTupleVariant(<<"T">>, <<c, Filler>>)
      [] w = "map" -> RMap(<<[k |-> RStr(<<"a">>), v |-> c]>>)
      [] w = "struct_variant" -> RStructVariant(<<"S">>, <<[k |-> <<"a">>, v |-> c]>>)
RECURSIVE Nest(_, _, _)
Nest(w, k, c) == IF k = 0 THEN c ELSE Wrap(w, Nest(w, k - 1, c))

SerInputs ==
    Leaves
    \cup Composites(Leaves)
    \cup Composites(Composites(InnerLeaves))
    \cup {Nest(w, k, c) : w \in Wrappers, k \in 1..MaxDepth, c \in InnerLeaves}

InitSer ==
    /\ ser_in \in SerInputs
    /\ ser_out = NoResult
    /\ IdleInt
    /\ IdleObj
    /\ IdleEmit

Call_jsvalue ==
    /\ ser_out = NoResult
    /\ ser_out' = jsvalue(ser_in)
    /\ UNCHANGED <<ser_in, intVars, objVars, emitVars>>

NextSer == Call_jsvalue

SpecSer == InitSer /\ [][NextSer]_vars

\* whether a value, or a child of it at any depth, fails to serialize
RECURSIVE ContainsFail(_)
ContainsFail(v) ==
    CASE v.shape = "fail" -> TRUE
      [] v.shape \in {"some", "newtype_struct", "newtype_variant"} -> ContainsFail(v.value)
      [] v.shape \in {"seq", "tuple", "tuple_struct", "tuple_variant"} ->
            \E i \in 1..Len(v.items) : ContainsFail(v.items[i])
      [] v.shape = "map" ->
            \E i \in 1..Len(v.entries) :
                ContainsFail(v.entries[i].k) \/ ContainsFail(v.entries[i].v)
      [] v.shape \in {"struct", "struct_variant"} ->
            \E i \in 1..Len(v.fields) : ContainsFail(v.fields[i].v)
      [] OTHER -> FALSE

IsComposite(v) ==
    v.shape \in {"some", "newtype_struct", "newtype_variant", "seq", "tuple", "tuple_struct",
                 "tuple_variant", "map", "struct", "struct_variant"}

\* what the payload of a variant serializes to on its own
VariantPayload(v) ==
    CASE v.shape = "newtype_variant" -> jsvalue(v.value)
      [] v.shape = "tuple_variant" -> jsvalue(RTuple(v.items))
      [] v.shape = "struct_variant" -> jsvalue(RStruct(v.fields))

(***************************************************************************)
(* ConsoleEmitter: emit, encode_extent, encode_props                       *)
(***************************************************************************)
\* a core::time::Duration; the model's durations are whole milliseconds
Duration(secs, nanos) == [secs |-> secs, nanos |-> nanos]
Duration_lt(a, b) == a.secs < b.secs \/ (a.secs = b.secs /\ a.nanos < b.nanos)
\* Duration::checked_sub
Duration_checked_sub(a, b) ==
    IF Duration_lt(a, b) THEN None
    ELSE IF a.nanos >= b.nanos THEN Some(Duration(a.secs - b.secs, a.nanos - b.nanos))
    ELSE Some(Duration(a.secs - b.secs - 1, a.nanos + 1000000000 - b.nanos))

\* emit::Extent (emit crate): a point, or a range of two timestamps, each
\* held as its time since the Unix epoch
Extent_point(ts) == [is_range |-> FALSE, start |-> ts, end |-> ts]
Extent_range(start, end) == [is_range |-> TRUE, start |-> start, end |-> end]
\* Extent::as_point: the point itself, or the end of the range
Extent_as_point(extent) == extent.end
\* Extent::len: the time from start to end of a range, None for a point
Extent_len(extent) ==
    IF extent.is_range THEN Duration_checked_sub(extent.end, extent.start) ELSE None

\* a small natural number as an f64
F64FromNat(n) ==
    JsNumber(FALSE, <<n % 65536, (n \div 65536) % 65536, 0, 0, 0, 0, 0, 0>>, 0)

\* d_secs * 1_000.0 + d_subsec_nanos / 1_000_000.0, exact on whole milliseconds
duration_millis_f64(d) == F64FromNat(d.secs * 1000 + d.nanos \div 1000000)

timestamp_key == <<"t", "i", "m", "e", "s", "t", "a", "m", "p">>
milliseconds_key == <<"m", "i", "l", "l", "i", "s", "e", "c", "o", "n", "d", "s">>

encode_extent(extent) ==
    IF ~extent.some THEN JsNull
    ELSE Let(Reflect_set(Object_new, JsString(timestamp_key),
                         JsDate(duration_millis_f64(Extent_as_point(extent.val)))),
             LAMBDA map :
                IF Extent_len(extent.val).some
                THEN Reflect_set(map, JsString(milliseconds_key),
                                 duration_millis_f64(Extent_len(extent.val).val))
                ELSE map)

\* a to_jsvalue that hands the console null when serialization fails
to_jsvalue_null_on_error(v) ==
    Let(jsvalue(v), LAMBDA r : IF IsOk(r) THEN r.val ELSE JsNull)

\* Ok(value) => value, Err(err) => err
to_jsvalue(v) == Let(jsvalue(v), LAMBDA r : IF IsOk(r) THEN r.val ELSE r.val)

encode_props(props) == to_jsvalue(PropsObject(props))

Levels == {"Debug", "Info", "Warn", "Error"}
LevelName(l) ==
    CASE l = "Debug" -> <<"d", "e", "b", "u", "g">>
      [] l = "Info" -> <<"i", "n", "f", "o">>
      [] l = "Warn" -> <<"w", "a", "r", "n">>
      [] l = "Error" -> <<"e", "r", "r", "o", "r">>
lvl_key == <<"l", "v", "l">>

\* Props::pull::<Level>("lvl") (emit crate): the first property of that key,
\* cast to a level; a value that is no level gives None
Props_pull_lvl(props) ==
    Let({i \in 1..Len(props) : props[i].k = lvl_key}, LAMBDA found :
        IF found = {} THEN None
        ELSE Let(props[CHOOSE i \in found : \A j \in found : i <= j].v, LAMBDA v :
                IF v.shape = "str" /\ \E l \in Levels : LevelName(l) = v.s
                THEN Some(CHOOSE l \in Levels : LevelName(l) = v.s)
                ELSE None))

\* a console that receives everything through console::log
console_method_always_log(lvl) == "log"

\* the arms of the match in emit
console_method(lvl) ==
    IF ~lvl.some THEN "log"
    ELSE CASE lvl.val = "Debug" -> "debug"
           [] lvl.val = "Info" -> "info"
           [] lvl.val = "Warn" -> "warn"
           [] lvl.val = "Error" -> "error"

\* the console calls one call to emit makes, in order
emit(e) ==
    << [method |-> console_method(Props_pull_lvl(e.props)),
        msg |-> e.msg,
        extent |-> encode_extent(e.extent),
        props |-> encode_props(e.props)] >>

(***************************************************************************)
(* SpecEmit: events are emitted one after another to the console           *)
(***************************************************************************)
MaxEmits == 2
MaxProps == 2

Times == {Duration(1, 0), Duration(2, 250000000)}
Extents ==
    {None}
    \cup {Some(Extent_point(t)) : t \in Times}
    \cup {Some(Extent_range(s, t)) : s \in Times, t \in Times}

\* the properties an event can carry, and the ones its longer lists are made of
PropPairs ==
    {[k |-> <<"a">>, v |-> x] : x \in {RBool(TRUE), RFail("prop")}}
    \cup {[k |-> lvl_key, v |-> x] :
            x \in {RStr(LevelName(l)) : l \in Levels} \cup {RStr(<<"x">>), RFail("prop")}}
ListPairs ==
    { [k |-> <<"a">>, v |-> RBool(TRUE)], [k |-> <<"a">>, v |-> RFail("prop")],
      [k |-> lvl_key, v |-> RStr(LevelName("Warn"))], [k |-> lvl_key, v |-> RStr(<<"x">>)] }

RECURSIVE SeqsUpTo(_, _)
SeqsUpTo(S, n) ==
    IF n = 0 THEN {<<>>}
    ELSE SeqsUpTo(S, n - 1) \cup {Append(p, x) : p \in SeqsUpTo(S, n - 1), x \in S}

\* msg is the rendered message
Event(extent, props) == [msg |-> <<"h", "i">>, extent |-> extent, props |-> props]
\* every extent with at most one property, and one range with the lists of
\* up to MaxProps properties
Events ==
    {Event(x, ps) : x \in Extents, ps \in SeqsUpTo(PropPairs, 1)}
    \cup {Event(Some(Extent_range(Duration(1, 0), Duration(2, 250000000))), ps) :
            ps \in SeqsUpTo(ListPairs, MaxProps)}

InitEmit ==
    /\ IdleEmit
    /\ IdleInt
    /\ IdleObj
    /\ IdleSer

Emit ==
    /\ emit_calls < MaxEmits
    /\ \E e \in Events :
        /\ evt' = Some(e)
        /\ emit_calls' = emit_calls + 1
        /\ console_writes' = console_writes + Len(emit(e))
        /\ console_last' = Let(emit(e), LAMBDA calls :
                                IF calls = <<>> THEN console_last ELSE calls[Len(calls)])
        /\ UNCHANGED <<intVars, objVars, serVars>>

NextEmit == Emit

SpecEmit == InitEmit /\ [][NextEmit]_vars

PropsFail(props) == \E i \in 1..Len(props) : ContainsFail(props[i].v)
HasKey(o, key) == \E i \in 1..Len(o.entries) : o.entries[i].k = key

(***************************************************************************)
(* Properties of the object builder (SpecMap)                              *)
(***************************************************************************)
\* C1: a serialize_value made while no key is pending returns an error and
\* leaves the result object as it was, and every serialize_value leaves no
\* key pending, so two values are never bound in a row.
C1_ValueWithoutKeyFails ==
    /\ (obj_call.op = "serialize_value" /\ ~obj_prev.key.some)
            => (IsErr(obj_ret) /\ obj.result = obj_prev.result)
    /\ obj_call.op = "serialize_value" => ~obj.key.some

\* a value is refused right after a completed key/value pair
C1_Witness ==
    /\ obj_call.op = "serialize_value"
    /\ ~obj_prev.key.some
    /\ Len(obj_prev.result.entries) >= 1
    /\ IsErr(obj_ret)

\* C2: ending the builder while a key is pending returns an error.
C2_EndWithPendingKeyFails ==
    (obj_call.op = "end" /\ obj_prev.key.some) => IsErr(obj_ret)

\* C12: a serialize_key whose key serializes is accepted whether or not a
\* key is pending, replaces the pending key and leaves the result object
\* as it was; a serialize_value that succeeds binds the value under the
\* pending key and adds no other key to the result.
C12_SecondKeyOverwritesPending ==
    /\ (obj_call.op = "serialize_key" /\ IsOk(jsvalue(obj_call.arg)))
            => /\ IsOk(obj_ret)
               /\ obj.key = Some(jsvalue(obj_call.arg).val)
               /\ obj.result = obj_prev.result
    /\ (obj_call.op = "serialize_value" /\ IsOk(obj_ret))
            => /\ obj.result
                    = Reflect_set(obj_prev.result, obj_prev.key.val, jsvalue(obj_call.arg).val)
               /\ \A i \in 1..Len(obj.result.entries) :
                    \/ obj.result.entries[i].k = ToPropertyKey(obj_prev.key.val)
                    \/ HasKey(obj_prev.result, obj.result.entries[i].k)

\* a second key arrived while another key was pending and took its place
C12_Witness ==
    /\ obj_call.op = "serialize_key"
    /\ obj_prev.key.some
    /\ IsOk(obj_ret)
    /\ obj.key.some
    /\ obj.key # obj_prev.key
    /\ obj.result = obj_prev.result

\* C13: a serialize_value whose value fails to serialize while a key is
\* pending returns an error, leaves the result object as it was and leaves
\* no key pending; a serialize_value made while no key is pending returns
\* the missing-key error.
C13_FailedValueConsumesKey ==
    /\ (obj_call.op = "serialize_value" /\ obj_prev.key.some /\ ContainsFail(obj_call.arg))
            => /\ IsErr(obj_ret)
               /\ obj.result = obj_prev.result
               /\ obj.key = None
    /\ (obj_call.op = "serialize_value" /\ ~obj_prev.key.some)
            => obj_ret = Err(JsError_custom("missing key for a value"))

\* the value failed after a pair was bound and a further key was pending
C13_Witness ==
    /\ obj_call.op = "serialize_value"
    /\ obj_prev.key.some
    /\ ContainsFail(obj_call.arg)
    /\ Len(obj_prev.result.entries) >= 1
    /\ obj.result = obj_prev.result
    /\ ~obj.key.some
    /\ IsErr(obj_ret)

(***************************************************************************)
(* Properties of the integer serializers (SpecInt)                         *)
(***************************************************************************)
\* C3: an integer of any width whose magnitude exceeds 2^53 - 1 serializes
\* to a bigint whose decimal string denotes the integer exactly.
C3_BigIntegersBecomeBigInt ==
    (int_out # NoResult /\ InputIsBig)
        => /\ IsOk(int_out)
           /\ int_out.val.t = "bigint"
           /\ int_out.val.neg = InputNeg
           /\ int_out.val.mag = InputMag

\* C4: an integer of any width whose magnitude is at most 2^53 - 1
\* serializes to the number equal to it, and both the signed and the
\* unsigned path compare against 2^53 - 1.
C4_SafeIntegersBecomeNumbers ==
    /\ i128_threshold = SafeMax
    /\ u128_threshold = SafeMax
    /\ (int_out # NoResult /\ ~InputIsBig)
            => /\ IsOk(int_out)
               /\ int_out.val.t = "number"
               /\ int_out.val.neg = InputNeg
               /\ int_out.val.mag = InputMag
               /\ int_out.val.exp = 0

\* -(2^53 - 1), the largest safe magnitude, went down the signed path
C4_Witness ==
    /\ int_out # NoResult
    /\ InputNeg
    /\ InputMag = SafeMax
    /\ int_out.val.t = "number"

(***************************************************************************)
(* Properties of ser::jsvalue on structured values (SpecSer)               *)
(***************************************************************************)
\* C5: a variant serializes by its name: a unit variant and a unit struct
\* give the name as a string; a newtype, tuple or struct variant whose
\* payload serializes gives an object with the one key `name`, bound to the
\* payload as it serializes on its own (a tuple as the array of its fields
\* in order, a struct as the object of its fields).
C5_VariantsSerializeByName ==
    ser_out # NoResult
        => /\ ser_in.shape = "unit_variant" => ser_out = Ok(JsString(ser_in.variant))
           /\ ser_in.shape = "unit_struct" => ser_out = Ok(JsString(ser_in.name))
           /\ (/\ ser_in.shape \in {"newtype_variant", "tuple_variant", "struct_variant"}
               /\ IsOk(VariantPayload(ser_in)))
                => /\ ser_out =
                        Ok(JsObject(<<[k |-> ser_in.variant, v |-> VariantPayload(ser_in).val]>>))
                   /\ ser_in.shape = "tuple_variant"
                        => Len(ser_out.val.entries[1].v.items) = Len(ser_in.items)
                   /\ ser_in.shape = "struct_variant"
                        => Len(ser_out.val.entries[1].v.entries) = Len(ser_in.fields)

\* a struct variant of two fields came out as {name: {two fields}}
C5_Witness ==
    /\ ser_in.shape = "struct_variant"
    /\ Len(ser_in.fields) >= 2
    /\ IsOk(ser_out)
    /\ ObjectKeys(ser_out.val) = <<ser_in.variant>>
    /\ Len(ser_out.val.entries[1].v.entries) = Len(ser_in.fields)

\* C6: when the value or any child of it at any depth fails to serialize,
\* jsvalue returns an error, which carries the error's text and no array or
\* object.
C6_ChildFailurePropagates ==
    (ser_out # NoResult /\ ContainsFail(ser_in))
        => /\ IsErr(ser_out)
           /\ ser_out.val = JsString(JsError_to_string(JsError))

\* the second element of a sequence held the failure one level further down
C6_Witness ==
    /\ ser_in.shape = "seq"
    /\ Len(ser_in.items) = 2
    /\ IsComposite(ser_in.items[2])
    /\ ContainsFail(ser_in.items[2])
    /\ IsErr(ser_out)

\* C7: a struct of N fields serializes to an object of exactly those N keys
\* in declaration order, a map of k pairwise distinct keys to an object of
\* exactly those k keys in insertion order, and a sequence or tuple of n
\* children to the array of the n children in order.
C7_KeysAndElementsKeepOrder ==
    (ser_out # NoResult /\ IsOk(ser_out))
        => /\ ser_in.shape = "struct"
                => ObjectKeys(ser_out.val)
                        = [i \in 1..Len(ser_in.fields) |-> ser_in.fields[i].k]
           /\ (/\ ser_in.shape = "map"
               /\ \A i, j \in 1..Len(ser_in.entries) :
                    i # j => ser_in.entries[i].k # ser_in.entries[j].k)
                => ObjectKeys(ser_out.val)
                        = [i \in 1..Len(ser_in.entries) |->
                                ToPropertyKey(jsvalue(ser_in.entries[i].k).val)]
           /\ ser_in.shape \in {"seq", "tuple"}
                => ser_out.val.items
                        = [i \in 1..Len(ser_in.items) |-> jsvalue(ser_in.items[i]).val]

\* the messages of the failures a value holds, itself or in a child
RECURSIVE FailMessages(_)
FailMessages(v) ==
    CASE v.shape = "fail" -> {v.msg}
      [] v.shape \in {"some", "newtype_struct", "newtype_variant"} -> FailMessages(v.value)
      [] v.shape \in {"seq", "tuple", "tuple_struct", "tuple_variant"} ->
            UNION {FailMessages(v.items[i]) : i \in 1..Len(v.items)}
      [] v.shape = "map" ->
            UNION {FailMessages(v.entries[i].k) \cup FailMessages(v.entries[i].v) :
                    i \in 1..Len(v.entries)}
      [] v.shape \in {"struct", "struct_variant"} ->
            UNION {FailMessages(v.fields[i].v) : i \in 1..Len(v.fields)}
      [] OTHER -> {}

\* the text of the messages the failing values of SerInputs give to custom
MessageText(msg) ==
    CASE msg = "leaf" -> <<"l", "e", "a", "f">>
      [] msg = "key" -> <<"k", "e", "y">>

\* whether the text `part` occurs in the text `whole`
Occurs(part, whole) ==
    \E i \in 0..(Len(whole) - Len(part)) : SubSeq(whole, i + 1, i + Len(part)) = part

\* what ser::jsvalue returns for an error a builder raises itself
StructuralErrors ==
    { Err(JsString(JsError_to_string(JsError_custom("missing key for a value")))),
      Err(JsString(JsError_to_string(JsError_custom("missing variant")))) }

\* C11: when a child fails to serialize with a custom message, the error
\* jsvalue returns carries the text of that message, and it differs from
\* the errors returned for a missing key and for a missing variant.
C11_CustomMessageReachesCaller ==
    (ser_out # NoResult /\ ContainsFail(ser_in))
        => /\ IsErr(ser_out)
           /\ \E m \in FailMessages(ser_in) : Occurs(MessageText(m), ser_out.val.s)
           /\ ser_out \notin StructuralErrors

(***************************************************************************)
(* Properties of the console emitter (SpecEmit)                            *)
(***************************************************************************)
MethodOf == [Debug |-> "debug", Info |-> "info", Warn |-> "warn", Error |-> "error"]

C9_PropsFailureReachesConsole ==
    (emit_calls > 0 /\ PropsFail(evt.val.props))
        => /\ console_writes = emit_calls
           /\ console_last.props = JsString(JsError_to_string(JsError))

\* the second property failed after the first was bound
C9_Witness ==
    /\ emit_calls > 0
    /\ Len(evt.val.props) = 2
    /\ ~ContainsFail(evt.val.props[1].v)
    /\ ContainsFail(evt.val.props[2].v)
    /\ console_writes = emit_calls
    /\ console_last.props.t = "string"

\* C10: the encoded extent is null exactly when the event has no extent;
\* otherwise it is an object with a timestamp, and with milliseconds exactly
\* when the extent is a range of non-zero length.
C10_MillisecondsOnlyForNonZeroSpan ==
    emit_calls > 0
        => /\ (console_last.extent = JsNull) <=> ~evt.val.extent.some
           /\ evt.val.extent.some
                => /\ console_last.extent.t = "object"
                   /\ HasKey(console_last.extent, timestamp_key)
                   /\ HasKey(console_last.extent, milliseconds_key)
                        <=> (/\ evt.val.extent.val.is_range
                             /\ Duration_lt(evt.val.extent.val.start, evt.val.extent.val.end))

====
